---- MODULE Spec2Model ----
(***************************************************************************)
(* Calculadora Comercial (src/app.py): lead capture into the leads table   *)
(* and the sales-funnel projection of the dashboard.                       *)
(*                                                                         *)
(* Python's float is IEEE-754 binary64 and Python's int is unbounded, so   *)
(* the arithmetic of parse_num and dashboard is modelled exactly: naturals *)
(* are little-endian sequences of 15-bit limbs, a float is a sign, a       *)
(* 53-bit significand and a binary exponent, and every float operation     *)
(* rounds its exact result to nearest, ties to even.                       *)
(***************************************************************************)
EXTENDS Integers, Sequences, FiniteSets, TLC

(***************************************************************************)
(* Unbounded naturals (Python int magnitudes, float significands).         *)
(***************************************************************************)

LimbBits == 15
Base == 2^LimbBits

Max(a, b) == IF a >= b THEN a ELSE b
Min(a, b) == IF a <= b THEN a ELSE b

\* The number of bits of 0 <= n < Base * Base
BitLenS(n) ==
  CHOOSE k \in 0..(2 * LimbBits) : n < 2^k /\ (k = 0 \/ n >= 2^(k - 1))

\* The limb sequences are canonical: the most significant limb is not 0.
BNorm(a) ==
  IF a = <<>> THEN <<>>
  ELSE IF a[Len(a)] # 0 THEN a
  ELSE LET nz == {i \in 1..Len(a) : a[i] # 0}
       IN IF nz = {} THEN <<>>
          ELSE SubSeq(a, 1, CHOOSE i \in nz : \A j \in nz : j <= i)

BFromInt(n) == BNorm(<<n % Base, (n \div Base) % Base, n \div (Base * Base)>>)

BZero == <<>>
BOne == <<1>>

Limb(a, i) == IF 1 <= i /\ i <= Len(a) THEN a[i] ELSE 0

\* The carry into limb i of the limb sums t[i] < 2 * Base: some lower limb
\* overflows and every limb between passes the carry on
Carry(t, i) ==
  \E j \in 1..(i - 1) :
    t[j] >= Base /\ \A k \in (j + 1)..(i - 1) : t[k] = Base - 1

\* The number of the limb sums t
BCarry(t) ==
  IF t = <<>> THEN <<>>
  ELSE BNorm([i \in 1..(Len(t) + 1) |->
                (Limb(t, i) + (IF Carry(t, i) THEN 1 ELSE 0)) % Base])

BAdd(a, b) ==
  IF a = <<>> THEN b
  ELSE IF b = <<>> THEN a
  ELSE BCarry([i \in 1..Max(Len(a), Len(b)) |-> Limb(a, i) + Limb(b, i)])

\* The borrow out of limb i of the limb differences t[i] > -Base
Borrow(t, i) ==
  \E j \in 1..(i - 1) : t[j] < 0 /\ \A k \in (j + 1)..(i - 1) : t[k] = 0

\* The number of the limb differences t, which is not negative
BBorrow(t) ==
  BNorm([i \in 1..Len(t) |->
           (Base + t[i] - (IF Borrow(t, i) THEN 1 ELSE 0)) % Base])

\* a - b for a >= b
BSub(a, b) ==
  IF a = b THEN <<>>
  ELSE BBorrow([i \in 1..Len(a) |-> a[i] - Limb(b, i)])

\* -1, 0, 1 as a < b, a = b, a > b
BCmp(a, b) ==
  IF Len(a) < Len(b) THEN -1
  ELSE IF Len(a) > Len(b) THEN 1
  ELSE LET df == {i \in 1..Len(a) : a[i] # b[i]}
       IN IF df = {} THEN 0
          ELSE LET i == CHOOSE i \in df : \A j \in df : j <= i
               IN IF a[i] < b[i] THEN -1 ELSE 1

BLt(a, b) == BCmp(a, b) = -1
BLe(a, b) == BCmp(a, b) # 1

\* a * k for 0 <= k <= Base: the low halves of the limb products plus their
\* high halves one limb up
BMulS(a, k) ==
  IF a = <<>> \/ k = 0 THEN <<>>
  ELSE BCarry([i \in 1..(Len(a) + 1) |->
                 ((Limb(a, i) * k) % Base) + ((Limb(a, i - 1) * k) \div Base)])

Zeros(n) == [i \in 1..n |-> 0]

\* a * Base^n
BShlLimbs(a, n) == IF a = <<>> THEN <<>> ELSE Zeros(n) \o a

\* a * (limbs lo..hi of b); the range is split in halves, so that the depth
\* of the recursion is the logarithm of the length
RECURSIVE BMulR(_, _, _, _)
BMulR(a, b, lo, hi) ==
  IF lo = hi THEN BMulS(a, b[lo])
  ELSE BAdd(BMulR(a, b, lo, (lo + hi) \div 2),
            BShlLimbs(BMulR(a, b, (lo + hi) \div 2 + 1, hi),
                      (lo + hi) \div 2 + 1 - lo))

BMul(a, b) == IF a = <<>> \/ b = <<>> THEN <<>> ELSE BMulR(a, b, 1, Len(b))

BitLen(a) == IF a = <<>> THEN 0 ELSE LimbBits * (Len(a) - 1) + BitLenS(a[Len(a)])

\* a * 2^k: limb i takes the low bits of a's limb i - k \div LimbBits, moved
\* up, and the high bits of the limb below it
BShl(a, k) ==
  IF a = <<>> \/ k = 0 THEN a
  ELSE BNorm([i \in 1..(Len(a) + k \div LimbBits + 1) |->
           ((Limb(a, i - k \div LimbBits) * 2^(k % LimbBits)) % Base)
           + ((Limb(a, i - k \div LimbBits - 1) * 2^(k % LimbBits)) \div Base)])

\* floor(a / 2^k)
BShr(a, k) ==
  IF k = 0 THEN a
  ELSE IF k \div LimbBits >= Len(a) THEN <<>>
  ELSE BNorm([i \in 1..(Len(a) - k \div LimbBits) |->
                (a[i + k \div LimbBits] \div 2^(k % LimbBits))
                + ((Limb(a, i + k \div LimbBits + 1) % 2^(k % LimbBits))
                   * 2^(LimbBits - (k % LimbBits)))])

BOdd(a) == a # <<>> /\ a[1] % 2 = 1

\* Long division by a divisor of one limb, 0 < k < Base, from the most
\* significant limb down: up holds the quotient limbs above hi and the
\* remainder they left, the result those from lo up and the remainder; the
\* range is split in halves
RECURSIVE BDivSR(_, _, _, _, _)
BDivSR(a, k, lo, hi, up) ==
  IF up.c = 0 /\ \A i \in lo..hi : a[i] = 0
  THEN [s |-> Zeros(hi - lo + 1) \o up.s, c |-> 0]
  ELSE IF lo = hi
  THEN [s |-> <<(up.c * Base + a[lo]) \div k>> \o up.s,
        c |-> (up.c * Base + a[lo]) % k]
  ELSE BDivSR(a, k, lo, (lo + hi) \div 2,
              BDivSR(a, k, (lo + hi) \div 2 + 1, hi, up))

BDivSPack(res) == [q |-> BNorm(res.s), r |-> BFromInt(res.c)]

\* floor(a / k) and a mod k for 0 < k < Base
BDivModS(a, k) ==
  IF a = <<>> THEN [q |-> <<>>, r |-> <<>>]
  ELSE BDivSPack(BDivSR(a, k, 1, Len(a), [s |-> <<>>, c |-> 0]))

\* One limb of a quotient, floor(r / d) for r < d * Base, where the top limb
\* of d is at least Base / 2: the quotient of the top limbs is that limb or
\* is 1 or 2 above it
QuotDigitEst(r, d) ==
  Min(Base - 1, (Limb(r, Len(d) + 1) * Base + Limb(r, Len(d))) \div d[Len(d)])

QuotDigitAt(r, d, qh) ==
  qh - Cardinality({c \in {qh - 1, qh} : c > 0 /\ BLt(r, BMulS(d, c))})

QuotDigit(r, d) == QuotDigitAt(r, d, QuotDigitEst(r, d))

\* Long division by a divisor d of several limbs, as BDivSR
RECURSIVE BDivLR(_, _, _, _, _)

BDivLDigit(up, d, r, q) == [s |-> <<q>> \o up.s, c |-> BSub(r, BMulS(d, q))]

BDivLStep(up, d, r) == BDivLDigit(up, d, r, QuotDigit(r, d))

BDivLR(a, d, lo, hi, up) ==
  IF up.c = <<>> /\ \A i \in lo..hi : a[i] = 0
  THEN [s |-> Zeros(hi - lo + 1) \o up.s, c |-> <<>>]
  ELSE IF lo = hi THEN BDivLStep(up, d, BNorm(<<a[lo]>> \o up.c))
  ELSE BDivLR(a, d, lo, (lo + hi) \div 2,
              BDivLR(a, d, (lo + hi) \div 2 + 1, hi, up))

BDivLPack(res, sh) == [q |-> BNorm(res.s), r |-> BShr(res.c, sh)]

BDivLimbs(a, d, sh) ==
  BDivLPack(BDivLR(a, d, 1, Len(a), [s |-> <<>>, c |-> <<>>]), sh)

\* floor(n / d) and n mod d for d > 0: both are shifted to bring the top limb
\* of d to Base / 2 at least, and the remainder is shifted back
BDivMod(n, d) ==
  IF BLt(n, d) THEN [q |-> <<>>, r |-> n]
  ELSE BDivLimbs(BShl(n, LimbBits - BitLenS(d[Len(d)])),
                 BShl(d, LimbBits - BitLenS(d[Len(d)])),
                 LimbBits - BitLenS(d[Len(d)]))

\* The number of trailing zero bits of 0 < n < Base
TrailingZerosS(n) ==
  CHOOSE k \in 0..(LimbBits - 1) : n % 2^k = 0 /\ n % 2^(k + 1) # 0

\* The number of trailing zero bits of a > 0
TrailingZeros(a) ==
  LET i == CHOOSE i \in 1..Len(a) : a[i] # 0 /\ \A j \in 1..(i - 1) : a[j] = 0
  IN LimbBits * (i - 1) + TrailingZerosS(a[i])

\* floor(a / d) and a mod d for d > 0
BQuotRem(a, d) ==
  IF d = BOne THEN [q |-> a, r |-> <<>>]
  ELSE IF Len(d) = 1 THEN BDivModS(a, d[1])
  ELSE BDivMod(a, d)

BShiftedRem(qr, n, hi, e) ==
  [q |-> qr.q, r |-> BAdd(BShl(qr.r, e), BSub(n, BShl(hi, e)))]

\* floor(n / (d * 2^e)) and n mod (d * 2^e) for d > 0
BQuotRemShr(n, d, e) == BShiftedRem(BQuotRem(BShr(n, e), d), n, BShr(n, e), e)

\* 10^k, by squaring
RECURSIVE BPow10(_)
BPow10(k) ==
  IF k = 0 THEN BOne
  ELSE IF k % 2 = 0 THEN BMul(BPow10(k \div 2), BPow10(k \div 2))
  ELSE BMulS(BPow10(k - 1), 10)

(***************************************************************************)
(* Python float: IEEE-754 binary64.  A finite value is (-1)^s * m * 2^e    *)
(* with m of exactly 53 bits, or of fewer bits at e = MinExp (subnormal),  *)
(* or m = 0 (a signed zero, e = 0); k tells finite from inf and nan.       *)
(***************************************************************************)
Precision == 52 + 1
MinExp == -1074
MaxExp == 1023 - 52

FZero(s) == [k |-> "fin", s |-> s, m |-> <<>>, e |-> 0]
FInf(s) == [k |-> "inf", s |-> s, m |-> <<>>, e |-> 0]
FNaN == [k |-> "nan", s |-> 0, m |-> <<>>, e |-> 0]

IsFinite(x) == x.k = "fin"
IsZero(x) == x.k = "fin" /\ x.m = <<>>

\* The number of bits of n / d, for n, d > 0: 1 + floor(log2(n / d))
QuotBits(n, d) ==
  IF BitLen(n) >= BitLen(d)
  THEN (IF BLe(BShl(d, BitLen(n) - BitLen(d)), n)
        THEN BitLen(n) - BitLen(d) + 1 ELSE BitLen(n) - BitLen(d))
  ELSE (IF BLe(d, BShl(n, BitLen(d) - BitLen(n)))
        THEN BitLen(n) - BitLen(d) + 1 ELSE BitLen(n) - BitLen(d))

\* Round to nearest, ties to even: is q to be rounded up, r / den being
\* what the quotient q left out
RoundsUp(q, r, den) ==
  LET c == BCmp(BAdd(r, r), den)
  IN c = 1 \/ (c = 0 /\ BOdd(q))

\* The float of significand m and exponent e (m one bit too long after a
\* carry out of the rounding; an exponent beyond MaxExp is an infinity)
FPack(s, m, e) ==
  IF m = <<>> THEN FZero(s)
  ELSE IF BitLen(m) > Precision
       THEN (IF e + 1 > MaxExp THEN FInf(s)
             ELSE [k |-> "fin", s |-> s, m |-> BShr(m, 1), e |-> e + 1])
  ELSE IF e > MaxExp THEN FInf(s)
  ELSE [k |-> "fin", s |-> s, m |-> m, e |-> e]

\* The quotient qr.q rounded to nearest by its remainder qr.r of den
FNearest(s, qr, den, e) ==
  IF qr.r = <<>> THEN FPack(s, qr.q, e)
  ELSE FPack(s, IF RoundsUp(qr.q, qr.r, den) THEN BAdd(qr.q, BOne) ELSE qr.q, e)

\* (n / d) * 2^x rounded at the bit 2^e of n / d
FRoundAt(s, n, d, x, e) ==
  IF e < 0 THEN FNearest(s, BQuotRem(BShl(n, -e), d), d, e + x)
  ELSE FNearest(s, BQuotRemShr(n, d, e), BShl(d, e), e + x)

\* The binary64 nearest to (-1)^s * (n / d) * 2^x, ties to even, for n > 0
\* and d > 0: the quotient is taken to Precision bits, or to fewer where the
\* result is subnormal
FRoundOdd(s, n, d, x) ==
  IF BitLen(n) - BitLen(d) + x < MinExp - 1 THEN FZero(s)
  ELSE FRoundAt(s, n, d, x, Max(QuotBits(n, d) - Precision, MinExp - x))

\* ... with the powers of two of d moved into the exponent first
FRound(s, n, d, x) ==
  IF n = <<>> THEN FZero(s)
  ELSE FRoundOdd(s, n, BShr(d, TrailingZeros(d)), x - TrailingZeros(d))

Xor(s, t) == IF s = t THEN 0 ELSE 1

\* x * y
FMul(x, y) ==
  IF x.k = "nan" \/ y.k = "nan" THEN FNaN
  ELSE IF x.k = "inf" \/ y.k = "inf"
       THEN (IF IsZero(x) \/ IsZero(y) THEN FNaN ELSE FInf(Xor(x.s, y.s)))
  ELSE FRound(Xor(x.s, y.s), BMul(x.m, y.m), BOne, x.e + y.e)

\* x / y for y # 0 (Python raises ZeroDivisionError on y = 0)
FDiv(x, y) ==
  IF x.k = "nan" \/ y.k = "nan" THEN FNaN
  ELSE IF x.k = "inf" THEN (IF y.k = "inf" THEN FNaN ELSE FInf(Xor(x.s, y.s)))
  ELSE IF y.k = "inf" THEN FZero(Xor(x.s, y.s))
  ELSE FRound(Xor(x.s, y.s), x.m, y.m, x.e - y.e)

\* a * 2^lo - b * 2^lo with the sign s on both: exactly zero is +0.0
FDiff(s, a, b, lo) ==
  IF a = b THEN FZero(0)
  ELSE FRound(IF BLe(b, a) THEN s ELSE 1 - s,
              IF BLe(b, a) THEN BSub(a, b) ELSE BSub(b, a), BOne, lo)

\* (-1)^sx * a * 2^lo - (-1)^sy * b * 2^lo
FSubAligned(sx, a, sy, b, lo) ==
  IF sx # sy THEN FRound(sx, BAdd(a, b), BOne, lo) ELSE FDiff(sx, a, b, lo)

\* x - y
FSub(x, y) ==
  IF x.k = "nan" \/ y.k = "nan" THEN FNaN
  ELSE IF x.k = "inf"
       THEN (IF y.k = "inf" /\ y.s = x.s THEN FNaN ELSE FInf(x.s))
  ELSE IF y.k = "inf" THEN FInf(1 - y.s)
  ELSE IF IsZero(y) THEN (IF IsZero(x) /\ x.s = 1 /\ y.s = 1 THEN FZero(0) ELSE x)
  ELSE IF IsZero(x) THEN [y EXCEPT !.s = 1 - y.s]
  ELSE IF x.e - y.e > Precision + 8 THEN x
  ELSE IF y.e - x.e > Precision + 8 THEN [y EXCEPT !.s = 1 - y.s]
  ELSE FSubAligned(x.s, BShl(x.m, x.e - Min(x.e, y.e)),
                   y.s, BShl(y.m, y.e - Min(x.e, y.e)), Min(x.e, y.e))

\* x > 0 (False for nan)
FGtZero(x) == (x.k = "inf" /\ x.s = 0) \/ (x.k = "fin" /\ x.m # <<>> /\ x.s = 0)

\* x == y as Python compares floats
FEq(x, y) ==
  /\ x.k # "nan" /\ y.k # "nan"
  /\ \/ IsZero(x) /\ IsZero(y)
     \/ x = y

(***************************************************************************)
(* Python int: a sign and a magnitude, [s, n]; zero is [0, <<>>].          *)
(***************************************************************************)
IInt(s, n) == [s |-> IF n = <<>> THEN 0 ELSE s, n |-> n]
IFromInt(v) == IF v < 0 THEN IInt(1, BFromInt(-v)) ELSE IInt(0, BFromInt(v))

IGtZero(i) == i.s = 0 /\ i.n # <<>>
ILe(i, j) ==
  IF i.s # j.s THEN i.s = 1
  ELSE IF i.s = 0 THEN BLe(i.n, j.n) ELSE BLe(j.n, i.n)
ILt(i, j) == ILe(i, j) /\ i # j
IMax(i, j) == IF ILe(i, j) THEN j ELSE i
IMul(i, j) == IInt(Xor(i.s, j.s), BMul(i.n, j.n))
ISub(i, j) ==
  IF i.s # j.s THEN IInt(i.s, BAdd(i.n, j.n))
  ELSE IF BLe(j.n, i.n) THEN IInt(i.s, BSub(i.n, j.n))
  ELSE IInt(1 - i.s, BSub(j.n, i.n))

\* float(i): exact below 2^53, else rounded to nearest
IntToFloat(i) == FRound(i.s, i.n, BOne, 0)

\* int(x) for finite x: truncation toward zero
FTrunc(x) ==
  IF x.e >= 0 THEN IInt(x.s, BShl(x.m, x.e)) ELSE IInt(x.s, BShr(x.m, -x.e))

\* math.ceil(x) for finite x
FCeil(x) ==
  LET t == FTrunc(x)
      exact == x.e >= 0 \/ BShl(BShr(x.m, -x.e), -x.e) = x.m
  IN IF exact \/ x.s = 1 THEN t ELSE IInt(0, BAdd(t.n, BOne))

\* i / j for ints, j # 0: the correctly rounded quotient
IntTrueDiv(i, j) == FRound(Xor(i.s, j.s), i.n, j.n, 0)

\* h / 100 for the integer h nearest to n / 2^k (ties to even)
Round2Q(s, n, k, q) ==
  FRound(s, IF RoundsUp(q, BSub(n, BShl(q, k)), BShl(BOne, k))
            THEN BAdd(q, BOne) ELSE q,
         BFromInt(100), 0)

\* round(x, 2): the decimal with two places nearest to x (ties to even,
\* decided on x's exact value), converted back to the nearest float
Round2(x) ==
  IF x.k # "fin" \/ x.m = <<>> THEN x
  ELSE IF x.e >= 0 THEN x
  ELSE Round2Q(x.s, BMulS(x.m, 100), -x.e, BShr(BMulS(x.m, 100), -x.e))

(***************************************************************************)
(* Text: a str is a sequence of one-character strings; None is the absent  *)
(* form value (request.form.get of a missing key).                         *)
(***************************************************************************)
None == <<"None">>

Whitespace == {" ", "\t"}
Digits == {"0", "1", "2", "3", "4", "5", "6", "7", "8", "9"}

DigitVal(c) ==
  CASE c = "0" -> 0 [] c = "1" -> 1 [] c = "2" -> 2 [] c = "3" -> 3
    [] c = "4" -> 4 [] c = "5" -> 5 [] c = "6" -> 6 [] c = "7" -> 7
    [] c = "8" -> 8 [] c = "9" -> 9

\* str.lower() on the letters float() looks at
Lower(c) ==
  CASE c = "E" -> "e" [] c = "I" -> "i" [] c = "N" -> "n" [] c = "F" -> "f"
    [] c = "A" -> "a" [] c = "T" -> "t" [] c = "Y" -> "y"
    [] OTHER -> c

RECURSIVE LStrip(_)
LStrip(s) ==
  IF s # <<>> /\ Head(s) \in Whitespace THEN LStrip(Tail(s)) ELSE s

RECURSIVE RStrip(_)
RStrip(s) ==
  IF s # <<>> /\ s[Len(s)] \in Whitespace
  THEN RStrip(SubSeq(s, 1, Len(s) - 1)) ELSE s

\* str.strip()
Strip(s) == RStrip(LStrip(s))

\* s.replace(c, r) for a single character c and a text r
RECURSIVE Replace(_, _, _)
Replace(s, c, r) ==
  IF s = <<>> THEN <<>>
  ELSE (IF Head(s) = c THEN r ELSE <<Head(s)>>) \o Replace(Tail(s), c, r)

\* The longest prefix of digits of s
RECURSIVE DigitPrefix(_)
DigitPrefix(s) ==
  IF s # <<>> /\ Head(s) \in Digits
  THEN <<Head(s)>> \o DigitPrefix(Tail(s)) ELSE <<>>

Drop(s, n) == SubSeq(s, n + 1, Len(s))

\* The number the digits ds[lo..hi] write, as a natural
RECURSIVE BFromDigitsR(_, _, _)
BFromDigitsR(ds, lo, hi) ==
  IF lo = hi THEN BFromInt(DigitVal(ds[lo]))
  ELSE LET mid == (lo + hi) \div 2
       IN BAdd(BMul(BFromDigitsR(ds, lo, mid), BPow10(hi - mid)),
               BFromDigitsR(ds, mid + 1, hi))

BFromDigits(ds) == IF ds = <<>> THEN <<>> ELSE BFromDigitsR(ds, 1, Len(ds))

\* ... and as a small integer (an exponent), capped at cap
RECURSIVE SmallFromDigits(_, _)
SmallFromDigits(ds, cap) ==
  IF ds = <<>> THEN 0
  ELSE Min(cap, 10 * SmallFromDigits(SubSeq(ds, 1, Len(ds) - 1), cap)
                + DigitVal(ds[Len(ds)]))

\* float() allows an underscore only between two digits
UnderscoresOk(s) ==
  \A i \in 1..Len(s) :
    s[i] = "_" => /\ i > 1 /\ s[i - 1] \in Digits
                  /\ i < Len(s) /\ s[i + 1] \in Digits

ValueError == [k |-> "ValueError", s |-> 0, m |-> <<>>, e |-> 0]

\* sign * n * 10^k; one of 10^341 or more is beyond the largest float, one
\* below 10^-340 rounds to 0
DecimalScaled(sign, n, k) ==
  IF n = <<>> THEN FZero(sign)
  ELSE IF k > 340 THEN FInf(sign)
  ELSE IF k + Len(n) * 5 < -340 THEN FZero(sign)
  ELSE FRound(sign, IF k >= 0 THEN BMul(n, BPow10(k)) ELSE n,
              IF k >= 0 THEN BOne ELSE BPow10(-k), 0)

\* A text without its sign, and the sign
Unsigned(v) == IF v # <<>> /\ Head(v) \in {"+", "-"} THEN Tail(v) ELSE v
SignOf(v) == IF v # <<>> /\ Head(v) = "-" THEN 1 ELSE 0

\* The parts of a float literal v, [sign] digits [. digits] [exponent]: the
\* integer digits, the digits after the point, and what follows each
IntDigits(v) == DigitPrefix(Unsigned(v))
AfterInt(v) == Drop(Unsigned(v), Len(IntDigits(v)))
HasPoint(v) == AfterInt(v) # <<>> /\ Head(AfterInt(v)) = "."
Fraction(v) == IF HasPoint(v) THEN DigitPrefix(Tail(AfterInt(v))) ELSE <<>>
AfterFraction(v) ==
  IF HasPoint(v) THEN Drop(AfterInt(v), 1 + Len(Fraction(v))) ELSE AfterInt(v)

\* The exponent part w, "" or e [sign] digits: is it well formed, and its
\* value
ExponentOk(w) ==
  \/ w = <<>>
  \/ /\ Head(w) = "e"
     /\ Unsigned(Tail(w)) # <<>>
     /\ DigitPrefix(Unsigned(Tail(w))) = Unsigned(Tail(w))

Exponent(w) ==
  IF w = <<>> THEN 0
  ELSE IF SignOf(Tail(w)) = 1 THEN -SmallFromDigits(Unsigned(Tail(w)), 1000)
  ELSE SmallFromDigits(Unsigned(Tail(w)), 1000)

\* float() of a stripped, lower-case text without underscores
FloatLiteral(v) ==
  IF Unsigned(v) \in {<<"i", "n", "f">>, <<"i", "n", "f", "i", "n", "i", "t", "y">>}
  THEN FInf(SignOf(v))
  ELSE IF Unsigned(v) = <<"n", "a", "n">> THEN FNaN
  ELSE IF IntDigits(v) \o Fraction(v) = <<>> \/ ~ExponentOk(AfterFraction(v))
       THEN ValueError
  ELSE DecimalScaled(SignOf(v), BFromDigits(IntDigits(v) \o Fraction(v)),
                     Exponent(AfterFraction(v)) - Len(Fraction(v)))

LowerStr(t) == [i \in 1..Len(t) |-> Lower(t[i])]

\* float(s) for a str s: a float, or ValueError
PyFloat(s) ==
  IF ~UnderscoresOk(Strip(s)) THEN ValueError
  ELSE FloatLiteral(Replace(LowerStr(Strip(s)), "_", <<>>))

(***************************************************************************)
(* parse_num (src/app.py, 57-73)                                           *)
(***************************************************************************)
\* try: return float(s) / except ValueError: return 0.0
FloatOrZero(f) == IF f = ValueError THEN FZero(0) ELSE f

parse_num(raw) ==
  IF raw = None THEN FZero(0)
  ELSE IF Strip(raw) = <<>> THEN FZero(0)
  ELSE FloatOrZero(PyFloat(Replace(Replace(Strip(raw), ".", <<>>), ",", <<".">>)))

(***************************************************************************)
(* The funnel projection of dashboard (src/app.py, 147-187): the POST      *)
(* branch.                                                                 *)
(***************************************************************************)
SdrCapacity == 180
CloserCapacity == 120

F100 == IntToFloat(IFromInt(100))
IOne == IFromInt(1)
IZero == IFromInt(0)

\* int(x): ValueError on nan, OverflowError on an infinity
IntRaises(x) == x.k # "fin"
IntError(x) == IF x.k = "nan" THEN "ValueError" ELSE "OverflowError"

Raise(exc) == [raised |-> TRUE, exc |-> exc, dict |-> <<>>]
Return(d) == [raised |-> FALSE, exc |-> "", dict |-> <<d>>]

\* The local variables of the POST branch up to vendas, unassigned; exc is
\* the exception that has left the handler, "" while none has
Locals ==
  [exc |-> "",
   investimento |-> FZero(0), custo_lead |-> FZero(0),
   taxa_agendamento |-> FZero(0), taxa_comparecimento |-> FZero(0),
   taxa_conversao |-> FZero(0), ticket_medio |-> FZero(0),
   leads |-> IZero, agendamentos |-> IZero, comparecimentos |-> IZero,
   vendas |-> IZero]

\* var = int(x)
AssignInt(l, var, x) ==
  IF IntRaises(x) THEN [l EXCEPT !.exc = IntError(x)]
  ELSE [l EXCEPT ![var] = FTrunc(x)]

\* parse_num(request.form.get(key)) for each key of the form
FormNum(form) == [key \in DOMAIN form |-> parse_num(form[key])]

\* A rate taken as a fraction already, not divided by 100; C10 does not hold
\* of it.
TaxaPlain(x) == x

\* ... / 100.0
Taxa(x) == FDiv(x, F100)

\* lines 149-154
Inputs(num) ==
  [Locals EXCEPT !.investimento = num.investimento,
                 !.custo_lead = num.custo_lead,
                 !.taxa_agendamento = Taxa(num.taxa_agendamento),
                 !.taxa_comparecimento = Taxa(num.taxa_comparecimento),
                 !.taxa_conversao = Taxa(num.taxa_conversao),
                 !.ticket_medio = num.ticket_medio]

\* prev * taxa for an int prev
Stage(prev, taxa) == FMul(IntToFloat(prev), taxa)

\* (num / den) if den > 0 else 0.0, for an int den
RatioInt(num, den) == IF IGtZero(den) THEN FDiv(num, IntToFloat(den)) ELSE FZero(0)

\* max(1, ceil(count / capacity))
Staff(count, capacity) == IMax(IOne, FCeil(IntTrueDiv(count, IFromInt(capacity))))

\* line 156
leads(l) ==
  IF FGtZero(l.custo_lead)
  THEN AssignInt(l, "leads", FDiv(l.investimento, l.custo_lead))
  ELSE [l EXCEPT !.leads = IZero]

\* lines 157-159
agendamentos(l) == AssignInt(l, "agendamentos", Stage(l.leads, l.taxa_agendamento))

comparecimentos(l) ==
  AssignInt(l, "comparecimentos", Stage(l.agendamentos, l.taxa_comparecimento))

vendas(l) == AssignInt(l, "vendas", Stage(l.comparecimentos, l.taxa_conversao))

\* lines 160-163
receita(l) == Stage(l.vendas, l.ticket_medio)

cac(l) == RatioInt(l.investimento, l.vendas)

roas(l, rec) == IF FGtZero(l.investimento) THEN FDiv(rec, l.investimento) ELSE FZero(0)

custo_por_call(l) == RatioInt(l.investimento, l.comparecimentos)

\* lines 165-166
sdrs(l) == Staff(l.comparecimentos, SdrCapacity)

closers(l) == Staff(l.vendas, CloserCapacity)

\* lines 168-170
taxa_total_funil(l) ==
  IF IGtZero(l.leads) THEN Round2(FMul(IntTrueDiv(l.vendas, l.leads), F100))
  ELSE FZero(0)

retorno_por_lead(l, rec) ==
  IF IGtZero(l.leads) THEN Round2(FDiv(rec, IntToFloat(l.leads))) ELSE FZero(0)

lucro(l, rec) == FSub(rec, l.investimento)

\* lines 173-187, rec being receita
resultados_dict(l, rec) ==
  [leads |-> l.leads,
   agendamentos |-> l.agendamentos,
   comparecimentos |-> l.comparecimentos,
   vendas |-> l.vendas,
   receita |-> Round2(rec),
   roas |-> Round2(roas(l, rec)),
   cac |-> Round2(cac(l)),
   custo_por_call |-> Round2(custo_por_call(l)),
   sdrs |-> sdrs(l),
   closers |-> closers(l),
   taxa_total_funil |-> taxa_total_funil(l),
   retorno_por_lead |-> Round2(retorno_por_lead(l, rec)),
   lucro |-> Round2(lucro(l, rec))]

\* What follows each int(): the exception, or the statements after it
AfterVendas(l) ==
  IF l.exc # "" THEN Raise(l.exc) ELSE Return(resultados_dict(l, receita(l)))

AfterComparecimentos(l) ==
  IF l.exc # "" THEN Raise(l.exc) ELSE AfterVendas(vendas(l))

AfterAgendamentos(l) ==
  IF l.exc # "" THEN Raise(l.exc) ELSE AfterComparecimentos(comparecimentos(l))

AfterLeads(l) ==
  IF l.exc # "" THEN Raise(l.exc) ELSE AfterAgendamentos(agendamentos(l))

\* The body of "if request.method == 'POST'": the resultados dict, or the
\* exception that leaves the handler
Resultados(form) == AfterLeads(leads(Inputs(FormNum(form))))

(***************************************************************************)
(* The leads table and the SQLAlchemy session (src/app.py, 27-45).         *)
(*   leads_table  the committed rows of "leads", in insertion order        *)
(*   session      db.session: the objects added and not yet committed      *)
(*   db_log       the session calls of the last request, in order          *)
(*   request      the last request: route, method, form, query argument,   *)
(*                and what the environment answered it with (the fault of  *)
(*                the database, the clock)                                 *)
(*   response     the response to it                                       *)
(*   parsed       a call of parse_num on its own: its argument and result  *)
(***************************************************************************)
VARIABLES leads_table, session, db_log, request, response, parsed

vars == <<leads_table, session, db_log, request, response, parsed>>

\* How many rows the table may hold
MaxLeads == 2

\* class Lead: id is assigned by the INSERT, created_at by its default
Lead(name, phone, email, company) ==
  [id |-> 0, name |-> name, phone |-> phone, email |-> email,
   company |-> company, created_at |-> 0]

\* An INSERT that would give every row the id 1; C8 does not hold of it.
NextIdOne(rows) == 1

\* INTEGER PRIMARY KEY of the default SQLite database: the largest id + 1
NextId(rows) == IF rows = <<>> THEN 1 ELSE rows[Len(rows)].id + 1

\* db.session.add(obj)
SessionAdd(sess, obj) == Append(sess, obj)

\* db.session.commit(): every pending object is inserted, with its id and
\* its created_at default (datetime.utcnow, here now)
RECURSIVE SessionCommit(_, _, _)
SessionCommit(rows, sess, now) ==
  IF sess = <<>> THEN rows
  ELSE SessionCommit(
         Append(rows, [Head(sess) EXCEPT !.id = NextId(rows), !.created_at = now]),
         Tail(sess), now)

\* db.session.rollback(): the pending objects are dropped, no row is written
SessionRollback(rows, sess) == [rows |-> rows, session |-> <<>>]

\* Lead.query.get(lead_id): <<row>>, or <<>> for None
QueryGet(rows, lead_id) ==
  LET hit == {i \in 1..Len(rows) : rows[i].id = lead_id}
  IN IF hit = {} THEN <<>> ELSE <<rows[CHOOSE i \in hit : TRUE]>>

(***************************************************************************)
(* Responses                                                               *)
(***************************************************************************)
Flash(message, category) == [message |-> message, category |-> category]

NoResponse ==
  [status |-> 0, template |-> "", location |-> "", lead_id |-> 0,
   flashed |-> <<>>, lead |-> <<>>, resultados |-> <<>>, exc |-> ""]

\* render_template(name, ...)
RenderTemplate(template, flashed, lead, resultados) ==
  [NoResponse EXCEPT !.status = 200, !.template = template,
                     !.flashed = flashed, !.lead = lead,
                     !.resultados = resultados]

\* redirect(url_for(endpoint, lead_id=...), code)
Redirect(endpoint, lead_id, code, flashed) ==
  [NoResponse EXCEPT !.status = code, !.location = endpoint,
                     !.lead_id = lead_id, !.flashed = flashed]

\* An exception that leaves a view: Flask answers 500
ServerError(exc) == [NoResponse EXCEPT !.status = 500, !.exc = exc]

NoRequest ==
  [route |-> "", method |-> "", form |-> <<>>, lead_id |-> None,
   fault |-> "none", now |-> 0]

(***************************************************************************)
(* capture (src/app.py, 94-131)                                            *)
(***************************************************************************)
\* A field read without .strip(); C2 does not hold of it.
FieldRaw(raw) == IF raw = None THEN <<>> ELSE raw

\* (request.form.get(key) or "").strip()
Field(raw) == Strip(IF raw = None THEN <<>> ELSE raw)

\* A validation that forgets the e-mail; C1 does not hold of it.
CaptureErrorsNoEmail(name, phone, email) ==
  (IF name = <<>> THEN <<"Informe o seu nome.">> ELSE <<>>)
  \o (IF phone = <<>> THEN <<"Informe o seu telefone.">> ELSE <<>>)

CaptureErrors(name, phone, email) ==
  (IF name = <<>> THEN <<"Informe o seu nome.">> ELSE <<>>)
  \o (IF phone = <<>> THEN <<"Informe o seu telefone.">> ELSE <<>>)
  \o (IF email = <<>> THEN <<"Informe o seu e-mail.">> ELSE <<>>)

SavedMessage == "Dados recebidos com sucesso. Vamos iniciar sua analise comercial!"
NotSavedMessage == "Nao foi possivel salvar seus dados agora. Tente novamente em instantes."

\* An except branch that commits what is pending instead of rolling it back;
\* C3 does not hold of it.
CaptureFailedCommits(rows, sess, log) ==
  [rows |-> SessionCommit(rows, sess, 0), session |-> <<>>,
   log |-> Append(log, "commit"),
   response |-> RenderTemplate("lead_capture.html",
                               <<Flash(NotSavedMessage, "danger")>>, <<>>, <<>>)]

\* The except branch: rollback, flash, the form again
CaptureFailed(rows, sess, log) ==
  LET back == SessionRollback(rows, sess)
  IN [rows |-> back.rows, session |-> back.session,
      log |-> Append(log, "rollback"),
      response |-> RenderTemplate("lead_capture.html",
                                  <<Flash(NotSavedMessage, "danger")>>, <<>>, <<>>)]

\* The POST branch of capture: the rows, the session, the session calls and
\* the response.  fault is where the database raises ("add", "commit") or
\* "none"; now is datetime.utcnow() at the INSERT.
CapturePost(rows, sess, form, fault, now) ==
  LET name == Field(form.name)
      phone == Field(form.phone)
      email == Field(form.email)
      company == Field(form.company)
      errors == CaptureErrors(name, phone, email)
      lead == Lead(name, phone, email, company)
      added == SessionAdd(sess, lead)
      committed == SessionCommit(rows, added, now)
  IN IF errors # <<>>
     THEN [rows |-> rows, session |-> sess, log |-> <<>>,
           response |-> RenderTemplate("lead_capture.html",
                          [i \in 1..Len(errors) |-> Flash(errors[i], "danger")],
                          <<>>, <<>>)]
     ELSE IF fault = "add" THEN CaptureFailed(rows, sess, <<"add">>)
     ELSE IF fault = "commit" THEN CaptureFailed(rows, added, <<"add", "commit">>)
     ELSE [rows |-> committed, session |-> <<>>, log |-> <<"add", "commit">>,
           response |-> Redirect("dashboard", committed[Len(committed)].id, 302,
                                 <<Flash(SavedMessage, "success")>>)]

(***************************************************************************)
(* The requests                                                            *)
(***************************************************************************)
NameInputs == {None, <<>>, <<" ">>, <<" ","a"," ">>}
PhoneInputs == {<<"\t">>, <<"1"," ">>}
EmailInputs == {None, <<"x">>}
CompanyInputs == {None, <<" ","c">>}
Faults == {"none", "add", "commit"}
Times == {1, 2}
LeadIdArgs == {None, <<"0">>, <<"1">>, <<"3">>, <<"x">>}

DashForm(a, b, c, d, e, f) ==
  [investimento |-> a, custo_lead |-> b, taxa_agendamento |-> c,
   taxa_comparecimento |-> d, taxa_conversao |-> e, ticket_medio |-> f]

\* The forms the dashboard is posted with next to the captures
DashForms ==
  { DashForm(<<"1","0","0","0","0">>, <<"5","0">>, <<"2","0">>, <<"8","0">>,
             <<"2","5">>, <<"5","0","0">>),
    DashForm(None, <<>>, <<"a","b","c">>, <<" ">>, <<"0">>, <<"-","1">>),
    DashForm(<<"i","n","f">>, <<"1">>, <<"2","0">>, <<"8","0">>, <<"2","5">>,
             <<"5","0","0">>) }

InvestimentoInputs ==
  {<<"1","0","0","0","0">>, <<"0">>, <<"1","0","0">>, <<"-","1","0","0">>}
CustoLeadInputs == {<<"5","0">>, <<"0">>, <<"1">>}
TaxaAgendamentoInputs == {<<"2","0">>, <<"2","9">>, <<"1","0","0">>}
TaxaComparecimentoInputs == {<<"8","0">>, <<"1","0","0">>}
TaxaConversaoInputs == {<<"2","5">>, <<"1","0","0">>, <<"0">>}
TicketMedioInputs == {<<"5","0","0">>, <<"0",",","1">>}

\* Forms at the edges: staffing capacities, a count beyond 2^53, negative
\* and pt-BR inputs, missing and malformed fields, inf and nan, a quotient
\* beyond the largest float
EdgeForms ==
  { DashForm(<<"1","8","1">>, <<"1">>, <<"1","0","0">>, <<"1","0","0">>, <<"1","0","0">>, <<"1">>),
    DashForm(<<"3","6","0">>, <<"1">>, <<"1","0","0">>, <<"1","0","0">>, <<"1","0","0">>, <<"1">>),
    DashForm(<<"3","6","1">>, <<"1">>, <<"1","0","0">>, <<"1","0","0">>, <<"1","0","0">>, <<"1">>),
    DashForm(<<"1","2","1">>, <<"1">>, <<"1","0","0">>, <<"1","0","0">>, <<"1","0","0">>, <<"1">>),
    DashForm(<<"1","0","0","0","0","0","0","0","0","0","0","0","0","0","0","0","0","0","0","0">>, <<"1">>, <<"1","0","0">>, <<"1","0","0">>, <<"1","0","0">>, <<"1">>),
    DashForm(<<"-","1","0","0">>, <<"3","0">>, <<"1","0","0">>, <<"1","0","0">>, <<"1","0","0">>, <<"1">>),
    DashForm(<<"1","0","0">>, <<"-","3","0">>, <<"2","0">>, <<"8","0">>, <<"2","5">>, <<"5","0","0">>),
    DashForm(<<"1","0","0">>, <<"1">>, <<"-","1","0">>, <<"1","0","0">>, <<"1","0","0">>, <<"1">>),
    DashForm(<<"1","0","0">>, <<"1">>, <<"1","5","0">>, <<"1","0","0">>, <<"1","0","0">>, <<"-","3">>),
    DashForm(<<"1","2",".","3","4","5",",","6","7">>, <<"0",",","0","7">>, <<"1","2",",","5">>, <<"9","9",",","9">>, <<"3","3",",","3","3">>, <<"1",".","9","9","9",",","9","9">>),
    DashForm(None, None, None, None, None, None),
    DashForm(<<"a","b","c">>, <<>>, <<" "," ">>, <<"1",",","2",",","3">>, <<"x">>, <<"-">>),
    DashForm(<<"i","n","f">>, <<"1">>, <<"2","0">>, <<"8","0">>, <<"2","5">>, <<"5","0","0">>),
    DashForm(<<"n","a","n">>, <<"5","0">>, <<"2","0">>, <<"8","0">>, <<"2","5">>, <<"5","0","0">>),
    DashForm(<<"1","0","0","0","0">>, <<"i","n","f">>, <<"2","0">>, <<"8","0">>, <<"2","5">>, <<"5","0","0">>),
    DashForm(<<"1","0","0","0","0">>, <<"5","0">>, <<"i","n","f">>, <<"8","0">>, <<"2","5">>, <<"5","0","0">>),
    DashForm(<<"1","0","0","0","0">>, <<"5","0">>, <<"2","0">>, <<"n","a","n">>, <<"2","5">>, <<"5","0","0">>),
    DashForm(<<"1","0","0","0","0">>, <<"5","0">>, <<"2","0">>, <<"8","0">>, <<"-","i","n","f">>, <<"5","0","0">>),
    DashForm(<<"1","0","0","0","0">>, <<"5","0">>, <<"2","0">>, <<"8","0">>, <<"2","5">>, <<"i","n","f">>),
    DashForm(<<"0">>, <<"0">>, <<"i","n","f">>, <<"8","0">>, <<"2","5">>, <<"5","0","0">>),
    DashForm(<<"0">>, <<"0">>, <<"2","0">>, <<"8","0">>, <<"2","5">>, <<"n","a","n">>),
    DashForm(<<"0">>, <<"0">>, <<"2","0">>, <<"8","0">>, <<"2","5">>, <<"i","n","f">>),
    DashForm(<<"1","e","5">>, <<"1","_","0">>, <<"2","e","1">>, <<"8","0">>, <<"2","5">>, <<"5","e","2">>),
    DashForm(<<"1","e","2","0","0">>, <<"1","e","-","2","0","0">>, <<"2","0">>, <<"8","0">>, <<"2","5">>, <<"5","0","0">>) }

FunnelForms ==
  { DashForm(a, b, c, d, e, f) :
      a \in InvestimentoInputs, b \in CustoLeadInputs,
      c \in TaxaAgendamentoInputs, d \in TaxaComparecimentoInputs,
      e \in TaxaConversaoInputs, f \in TicketMedioInputs }
  \cup EdgeForms \cup DashForms

(***************************************************************************)
(* dashboard (src/app.py, 133-189)                                         *)
(***************************************************************************)
\* request.args.get("lead_id", type=int): <<n>>, or <<>> for None (absent, or
\* int() raised ValueError)
LeadIdArg(raw) ==
  IF raw = None THEN <<>>
  ELSE LET t == Strip(raw)
           neg == t # <<>> /\ Head(t) = "-"
           w == IF t # <<>> /\ Head(t) \in {"+", "-"} THEN Tail(t) ELSE t
           v == Replace(w, "_", <<>>)
       IN IF v = <<>> \/ DigitPrefix(v) # v \/ ~UnderscoresOk(w) THEN <<>>
          ELSE LET n == SmallFromDigits(v, 1000000)
               IN <<IF neg THEN -n ELSE n>>

\* if lead_id: lead = Lead.query.get(lead_id)
DashboardLead(rows, lead_id) ==
  IF lead_id # <<>> /\ lead_id[1] # 0 THEN QueryGet(rows, lead_id[1]) ELSE <<>>

\* The response to a GET: resultados = None
DashboardGet(lead) == RenderTemplate("dashboard.html", <<>>, lead, <<>>)

\* The response to a POST, res being what the POST branch gave
DashboardPost(lead, res) ==
  IF res.raised THEN ServerError(res.exc)
  ELSE RenderTemplate("dashboard.html", <<>>, lead, res.dict)

\* The longest text parse_num is called with, over ParseAlphabet
MaxLen == 3
ParseAlphabet == {"0", "1", "5", ".", ",", " ", "-", "e", "_", "n", "a"}

ParseEdges ==
  { <<"1",".","2","3","4",",","5","6">>, <<"i","n","f">>,
    <<"-","i","n","f">>, <<"+","i","n","f">>,
    <<"I","n","f","i","n","i","t","y">>, <<"i","n","f","i","n","i","t","y">>,
    <<"N","a","N">>, <<"-","n","a","n">>, <<"a","b","c">>,
    <<"1","e","4","0","0">>, <<"1","e","-","4","0","0">>, <<"\t","7"," ">>,
    <<"1",".","0","0","0",".","0","0","0">>, <<"0",",","2","9">>,
    <<"1",",","2",",","3">>, <<"1","0","0","0","0">>,
    <<"1","_","0","0","0",",","5">>,
    <<"9","0","0","7","1","9","9","2","5","4","7","4","0","9","9","3">>,
    <<"1","e","2","2">>, <<"i","n","f","i","n","i","t">>,
    <<"+",",","5","e","-","2">> }

ParseInputs ==
  {None} \cup ParseEdges
  \cup UNION {[1..k -> ParseAlphabet] : k \in 0..MaxLen}

NotParsed == [raw |-> None, done |-> TRUE, value |-> FZero(0)]

(***************************************************************************)
(* The application: one action per route and method.                       *)
(***************************************************************************)
Init ==
  /\ leads_table = <<>>
  /\ session = <<>>
  /\ db_log = <<>>
  /\ request = NoRequest
  /\ response = NoResponse
  /\ parsed = NotParsed

\* @app.route("/login")
old_login ==
  /\ request' = [NoRequest EXCEPT !.route = "/login", !.method = "GET"]
  /\ response' = Redirect("capture", 0, 301, <<>>)
  /\ db_log' = <<>>
  /\ UNCHANGED <<leads_table, session, parsed>>

\* @app.route("/logout", methods=["POST"])
logout ==
  /\ request' = [NoRequest EXCEPT !.route = "/logout", !.method = "POST"]
  /\ response' = Redirect("capture", 0, 302, <<>>)
  /\ db_log' = <<>>
  /\ UNCHANGED <<leads_table, session, parsed>>

\* GET /
capture_GET ==
  /\ request' = [NoRequest EXCEPT !.route = "/", !.method = "GET"]
  /\ response' = RenderTemplate("lead_capture.html", <<>>, <<>>, <<>>)
  /\ db_log' = <<>>
  /\ UNCHANGED <<leads_table, session, parsed>>

\* POST /: the database and the clock are consulted only by a valid form
capture_POST ==
  \E name \in NameInputs, phone \in PhoneInputs, email \in EmailInputs,
     company \in CompanyInputs :
    LET form == [name |-> name, phone |-> phone, email |-> email,
                 company |-> company]
        valid == CaptureErrors(Field(name), Field(phone), Field(email)) = <<>>
    IN \E fault \in (IF valid THEN Faults ELSE {"none"}),
          now \in (IF valid THEN Times ELSE {0}) :
         LET out == CapturePost(leads_table, session, form, fault, now)
         IN /\ Len(out.rows) <= MaxLeads
            /\ request' = [NoRequest EXCEPT !.route = "/", !.method = "POST",
                                            !.form = form, !.fault = fault,
                                            !.now = now]
            /\ leads_table' = out.rows
            /\ session' = out.session
            /\ db_log' = out.log
            /\ response' = out.response
            /\ UNCHANGED parsed

\* GET /dashboard
dashboard_GET ==
  \E arg \in LeadIdArgs :
    /\ request' = [NoRequest EXCEPT !.route = "/dashboard", !.method = "GET",
                                    !.lead_id = arg]
    /\ response' = DashboardGet(DashboardLead(leads_table, LeadIdArg(arg)))
    /\ db_log' = <<>>
    /\ UNCHANGED <<leads_table, session, parsed>>

\* POST /dashboard
dashboard_POST ==
  \E form \in DashForms :
    LET res == Resultados(form)
    IN \E arg \in LeadIdArgs :
         /\ request' = [NoRequest EXCEPT !.route = "/dashboard", !.method = "POST",
                                         !.lead_id = arg, !.form = form]
         /\ response' = DashboardPost(DashboardLead(leads_table, LeadIdArg(arg)), res)
         /\ db_log' = <<>>
         /\ UNCHANGED <<leads_table, session, parsed>>

Next ==
  \/ old_login
  \/ logout
  \/ capture_GET
  \/ capture_POST
  \/ dashboard_GET
  \/ dashboard_POST

Spec == Init /\ [][Next]_vars

(***************************************************************************)
(* The funnel on its own: a POST /dashboard with each form of FunnelForms, *)
(* on an empty table.                                                      *)
(***************************************************************************)
InitFunnel ==
  /\ leads_table = <<>>
  /\ session = <<>>
  /\ db_log = <<>>
  /\ request \in {[NoRequest EXCEPT !.route = "/dashboard", !.method = "POST",
                                    !.form = form] : form \in FunnelForms}
  /\ response = NoResponse
  /\ parsed = NotParsed

dashboard_serve ==
  /\ request.route = "/dashboard"
  /\ response = NoResponse
  /\ request.method = "POST"
  /\ response' = DashboardPost(DashboardLead(leads_table, LeadIdArg(request.lead_id)),
                               Resultados(request.form))
  /\ UNCHANGED <<leads_table, session, db_log, request, parsed>>

NextFunnel == dashboard_serve

SpecFunnel == InitFunnel /\ [][NextFunnel]_vars

(***************************************************************************)
(* parse_num on its own, on each text of ParseInputs.                      *)
(***************************************************************************)
InitParse ==
  /\ leads_table = <<>>
  /\ session = <<>>
  /\ db_log = <<>>
  /\ request = NoRequest
  /\ response = NoResponse
  /\ parsed \in {[raw |-> raw, done |-> FALSE, value |-> FZero(0)] :
                   raw \in ParseInputs}

parse_call ==
  /\ ~parsed.done
  /\ parsed' = [parsed EXCEPT !.done = TRUE, !.value = parse_num(parsed.raw)]
  /\ UNCHANGED <<leads_table, session, db_log, request, response>>

NextParse == parse_call

SpecParse == InitParse /\ [][NextParse]_vars

(***************************************************************************)
(* The claims.  What a claim says of a text or of a number is stated here  *)
(* on its own terms, not through the operators that model the code.        *)
(***************************************************************************)
\* A form value that is absent, or blank after trimming whitespace
IsBlank(raw) == raw = None \/ \A i \in 1..Len(raw) : raw[i] \in Whitespace

\* A text without the whitespace at its ends
Trimmed(raw) ==
  IF IsBlank(raw) THEN <<>>
  ELSE SubSeq(raw,
              CHOOSE i \in 1..Len(raw) :
                raw[i] \notin Whitespace /\ \A j \in 1..(i - 1) : raw[j] \in Whitespace,
              CHOOSE i \in 1..Len(raw) :
                raw[i] \notin Whitespace
                /\ \A j \in (i + 1)..Len(raw) : raw[j] \in Whitespace)

\* The request of the next state is a capture POST
CapturePosted == request'.route = "/" /\ request'.method = "POST"

\* ... with name, phone and email given
CaptureValid ==
  /\ CapturePosted
  /\ ~IsBlank(request'.form.name)
  /\ ~IsBlank(request'.form.phone)
  /\ ~IsBlank(request'.form.email)

\* The response is the capture form and no redirect
IsCaptureForm(r) ==
  r.status = 200 /\ r.template = "lead_capture.html" /\ r.location = ""

\* C1: a capture POST with name, phone or email absent or blank leaves the
\* lead store as it was and answers with the capture form, not a redirect,
\* whatever the other fields hold and whatever the store holds.
C1_InvalidCaptureCreatesNothing ==
  [][(CapturePosted /\ ~CaptureValid)
       => (leads_table' = leads_table /\ IsCaptureForm(response'))]_vars

\* An invalid capture POST (the e-mail is missing) answered on a store that
\* holds a lead
C1_Witness ==
  /\ request.route = "/" /\ request.method = "POST"
  /\ ~IsBlank(request.form.name) /\ ~IsBlank(request.form.phone)
  /\ IsBlank(request.form.email)
  /\ leads_table # <<>>
  /\ response.template = "lead_capture.html"
  /\ response.flashed # <<>>

\* C2: a capture POST with name, phone and email given whose write succeeds
\* adds exactly one record, holding the trimmed values, and redirects to the
\* dashboard with that record's id; company may be blank.
C2_ValidCaptureCreatesOneLead ==
  [][(CaptureValid /\ request'.fault = "none")
       => /\ Len(leads_table') = Len(leads_table) + 1
          /\ SubSeq(leads_table', 1, Len(leads_table)) = leads_table
          /\ leads_table'[Len(leads_table')].name = Trimmed(request'.form.name)
          /\ leads_table'[Len(leads_table')].phone = Trimmed(request'.form.phone)
          /\ leads_table'[Len(leads_table')].email = Trimmed(request'.form.email)
          /\ leads_table'[Len(leads_table')].company = Trimmed(request'.form.company)
          /\ \A i \in 1..Len(leads_table) :
               leads_table[i].id # leads_table'[Len(leads_table')].id
          /\ response'.status = 302
          /\ response'.location = "dashboard"
          /\ response'.lead_id = leads_table'[Len(leads_table')].id]_vars

\* A second lead has been created, by a form without a company and with
\* whitespace around the name, and the redirect carries its id
C2_Witness ==
  /\ request.route = "/" /\ request.method = "POST" /\ request.fault = "none"
  /\ IsBlank(request.form.company)
  /\ request.form.name # Trimmed(request.form.name)
  /\ Len(leads_table) = 2
  /\ response.status = 302
  /\ response.lead_id = leads_table[2].id

\* C3: when add or commit raises on a valid capture POST, the session is
\* rolled back once and nothing is tried again, the store holds no record of
\* the request, and the answer is the capture form with an error message.
C3_FailedWriteIsRolledBack ==
  [][(CaptureValid /\ request'.fault \in {"add", "commit"})
       => /\ leads_table' = leads_table
          /\ session' = <<>>
          /\ db_log' \in {<<"add", "rollback">>, <<"add", "commit", "rollback">>}
          /\ IsCaptureForm(response')
          /\ \E i \in 1..Len(response'.flashed) :
               response'.flashed[i].category = "danger"]_vars

\* A commit has failed on a store that holds a lead
C3_Witness ==
  /\ request.route = "/" /\ request.method = "POST" /\ request.fault = "commit"
  /\ db_log = <<"add", "commit", "rollback">>
  /\ Len(leads_table) = 1
  /\ response.template = "lead_capture.html"

\* C8: the lead store is append-only.  A step changes it only by a capture
\* POST that is answered with the redirect, and then by one record appended,
\* every older record kept as it was; the ids increase strictly in creation
\* order.
C8_LeadStoreAppendOnly ==
  [][/\ \/ leads_table' = leads_table
        \/ /\ CapturePosted
           /\ response'.status = 302
           /\ Len(leads_table') = Len(leads_table) + 1
           /\ SubSeq(leads_table', 1, Len(leads_table)) = leads_table
     /\ \A i, j \in 1..Len(leads_table') :
          i < j => leads_table'[i].id < leads_table'[j].id]_vars

\* Two leads are stored and a dashboard POST has been answered
C8_Witness ==
  /\ Len(leads_table) = 2
  /\ leads_table[1].id < leads_table[2].id
  /\ request.route = "/dashboard" /\ request.method = "POST"
  /\ response.status = 200

\* A dashboard POST has been answered
Served ==
  request.route = "/dashboard" /\ request.method = "POST" /\ response # NoResponse

\* ... with the metrics
HasResult == Served /\ response.status = 200 /\ response.resultados # <<>>

Metrics == response.resultados[1]

MetricKeys ==
  {"leads", "agendamentos", "comparecimentos", "vendas", "receita", "roas",
   "cac", "custo_por_call", "sdrs", "closers", "taxa_total_funil",
   "retorno_por_lead", "lucro"}

\* C4: a dashboard POST never fails; whatever the six form values are, the
\* answer carries the full metrics dictionary.
C4_DashboardPostNeverFails ==
  Served => (HasResult /\ DOMAIN Metrics = MetricKeys)

\* n is the least integer >= 1 with n * capacity >= count
IsLeastStaff(n, count, capacity) ==
  /\ ILe(IOne, n)
  /\ ILe(count, IMul(n, IFromInt(capacity)))
  /\ n = IOne \/ ILt(IMul(ISub(n, IOne), IFromInt(capacity)), count)

\* C5: sdrs is the least integer n >= 1 with n * 180 >= attendances, and
\* closers the least with n * 120 >= sales.
C5_StaffIsLeastCover ==
  HasResult => /\ IsLeastStaff(Metrics.sdrs, Metrics.comparecimentos, 180)
               /\ IsLeastStaff(Metrics.closers, Metrics.vendas, 120)

\* x <= 0, and i <= 0
FLeZero(x) == IsZero(x) \/ (x.k \in {"fin", "inf"} /\ x.s = 1)
ILeZero(i) == i.n = <<>> \/ i.s = 1

\* The ratio outputs that fall back to 0 with leads
LeadRatiosZero(m) ==
  /\ m.leads = IZero
  /\ IsZero(m.cac) /\ IsZero(m.roas) /\ IsZero(m.custo_por_call)
  /\ IsZero(m.taxa_total_funil) /\ IsZero(m.retorno_por_lead)

\* C6: every ratio output is 0 when its denominator is not greater than
\* zero; investment = 0 with costPerLead = 0 gives leads = 0 and all of them
\* 0, whatever the other four inputs are.
C6_GuardedRatiosAreZero ==
  /\ HasResult =>
       /\ FLeZero(parse_num(request.form.custo_lead)) => Metrics.leads = IZero
       /\ FLeZero(parse_num(request.form.investimento)) => IsZero(Metrics.roas)
       /\ ILeZero(Metrics.vendas) => IsZero(Metrics.cac)
       /\ ILeZero(Metrics.comparecimentos) => IsZero(Metrics.custo_por_call)
       /\ ILeZero(Metrics.leads) =>
            IsZero(Metrics.taxa_total_funil) /\ IsZero(Metrics.retorno_por_lead)
  /\ (/\ Served
      /\ IsZero(parse_num(request.form.investimento))
      /\ IsZero(parse_num(request.form.custo_lead)))
       => (HasResult /\ LeadRatiosZero(Metrics))

\* floor((-1)^s * n / d) for naturals n and d > 0
FloorQuotRem(s, qr) ==
  IF s = 0 \/ qr.r = <<>> THEN IInt(s, qr.q) ELSE IInt(1, BAdd(qr.q, BOne))

FloorQuot(s, n, d) == FloorQuotRem(s, BQuotRem(n, d))

\* floor(x / y) for finite floats x and y # 0, on their exact values
FloorRatio(x, y) ==
  FloorQuot(Xor(x.s, y.s), BShl(x.m, Max(x.e - y.e, 0)), BShl(y.m, Max(y.e - x.e, 0)))

\* floor(count * rate / 100) for an integer count and a finite float rate
FloorStage(count, rate) ==
  FloorQuot(Xor(count.s, rate.s), BShl(BMul(count.n, rate.m), Max(rate.e, 0)),
            BShl(BFromInt(100), Max(-rate.e, 0)))

\* The form of the specification's example and the floats 4000.0 and -6000.0
ExampleForm ==
  DashForm(<<"1","0","0","0","0">>, <<"5","0">>, <<"2","0">>, <<"8","0">>,
           <<"2","5">>, <<"5","0","0">>)

FloatOfInt(v) == IntToFloat(IFromInt(v))

NumericForm(form) == \A key \in DOMAIN form : IsFinite(parse_num(form[key]))

\* C7: for all numeric inputs the stage counts follow the floor chain, each
\* the floor of the exact product or quotient; the example of the
\* specification gives 200, 40, 32, 8, revenue 4000 and profit -6000.
C7_StagesFollowFloorChain ==
  (HasResult /\ NumericForm(request.form)) =>
    /\ Metrics.leads =
         (IF FGtZero(parse_num(request.form.custo_lead))
          THEN FloorRatio(parse_num(request.form.investimento),
                          parse_num(request.form.custo_lead))
          ELSE IZero)
    /\ Metrics.agendamentos =
         FloorStage(Metrics.leads, parse_num(request.form.taxa_agendamento))
    /\ Metrics.comparecimentos =
         FloorStage(Metrics.agendamentos, parse_num(request.form.taxa_comparecimento))
    /\ Metrics.vendas =
         FloorStage(Metrics.comparecimentos, parse_num(request.form.taxa_conversao))
    /\ request.form = ExampleForm =>
         /\ Metrics.leads = IFromInt(200)
         /\ Metrics.agendamentos = IFromInt(40)
         /\ Metrics.comparecimentos = IFromInt(32)
         /\ Metrics.vendas = IFromInt(8)
         /\ Metrics.receita = FloatOfInt(4000)
         /\ Metrics.lucro = FloatOfInt(-6000)

\* A text that holds no digit
NoDigit(raw) == raw = None \/ \A i \in 1..Len(raw) : raw[i] \notin Digits

\* A pt-BR number: digits, with "." between digits as the thousands
\* separator and at most one "," between digits, after every "."
IsPtBr(t) ==
  /\ t # <<>>
  /\ \A i \in 1..Len(t) :
       \/ t[i] \in Digits
       \/ /\ t[i] \in {".", ","}
          /\ 1 < i /\ i < Len(t)
          /\ t[i - 1] \in Digits /\ t[i + 1] \in Digits
  /\ \A i, j \in 1..Len(t) : (t[i] = "," /\ i < j) => t[j] \in Digits

IsDigit(c) == c \in Digits

\* How many digits follow the ","
Decimals(t) ==
  IF \E i \in 1..Len(t) : t[i] = ","
  THEN Len(t) - (CHOOSE i \in 1..Len(t) : t[i] = ",")
  ELSE 0

\* The float nearest to the number that t writes, with the "." deleted and
\* the "," read as the decimal point
PtBrValue(t) == FRound(0, BFromDigits(SelectSeq(t, IsDigit)), BPow10(Decimals(t)), 0)

\* C9: parse_num never raises; it returns 0.0 for absent and blank input and
\* for every text that is no number, and the pt-BR reading of a well-formed
\* text ("1.234,56" gives 1234.56).
C9_ParseNumIsTotalAndPtBr ==
  parsed.done =>
    /\ parsed.value.k \in {"fin", "inf", "nan"}
    /\ IsBlank(parsed.raw) => parsed.value = FZero(0)
    /\ NoDigit(parsed.raw) => parsed.value = FZero(0)
    /\ (~IsBlank(parsed.raw) /\ IsPtBr(Trimmed(parsed.raw)))
         => parsed.value = PtBrValue(Trimmed(parsed.raw))

\* x >= 0, and 0 <= x <= 100
FGeZero(x) == IsZero(x) \/ (x.k \in {"fin", "inf"} /\ x.s = 0)
IsPercent(x) ==
  /\ IsFinite(x)
  /\ IsZero(x) \/ (x.s = 0 /\ FloorRatio(x, FloatOfInt(100)) = IZero)
                \/ x = FloatOfInt(100)

\* The inputs of C10
ValidFunnelForm(form) ==
  /\ FGeZero(parse_num(form.investimento))
  /\ FGtZero(parse_num(form.custo_lead))
  /\ IsPercent(parse_num(form.taxa_agendamento))
  /\ IsPercent(parse_num(form.taxa_comparecimento))
  /\ IsPercent(parse_num(form.taxa_conversao))

\* C10: with investment >= 0, costPerLead > 0 and the three rates between 0
\* and 100 percent, the stage counts the funnel gives satisfy
\* 0 <= sales <= attendances <= appointments <= leads, and revenue and
\* profit are those of the sales: sales * avgTicket, and that less the
\* investment.
C10_FunnelIsMonotone ==
  (HasResult /\ ValidFunnelForm(request.form)) =>
    /\ ILe(IZero, Metrics.vendas)
    /\ ILe(Metrics.vendas, Metrics.comparecimentos)
    /\ ILe(Metrics.comparecimentos, Metrics.agendamentos)
    /\ ILe(Metrics.agendamentos, Metrics.leads)
    /\ Metrics.receita =
         Round2(FMul(IntToFloat(Metrics.vendas), parse_num(request.form.ticket_medio)))
    /\ Metrics.lucro =
         Round2(FSub(FMul(IntToFloat(Metrics.vendas),
                          parse_num(request.form.ticket_medio)),
                     parse_num(request.form.investimento)))

\* The example of the specification has been answered, and each stage is
\* smaller than the one before it
C10_Witness ==
  /\ HasResult
  /\ request.form = ExampleForm
  /\ ValidFunnelForm(request.form)
  /\ ILt(Metrics.vendas, Metrics.comparecimentos)
  /\ ILt(Metrics.comparecimentos, Metrics.agendamentos)
  /\ ILt(Metrics.agendamentos, Metrics.leads)
  /\ Metrics.vendas = IFromInt(8)

====
